---- MODULE Spec2Model ----
(***************************************************************************)
(* Movement (PerceptLabs/mvmnt): the Nostr event layer of the client.      *)
(*                                                                         *)
(* The client publishes signed events (campaigns, kind 31100; campaign     *)
(* updates, kind 31101; action attestations, kind 31102) to relays and     *)
(* derives its read model (campaign records, metrics, feeds) from the      *)
(* events the relays return to its queries.                                *)
(*                                                                         *)
(* An event is the record [kind, pubkey, created_at, content, tags]; tags  *)
(* is the sequence of <<name, value>> pairs of the source.  The event id   *)
(* of NIP-01 is the hash of exactly these fields, so the record is its own *)
(* identity: two events are the same event iff the records are equal.      *)
(***************************************************************************)
EXTENDS Integers, Sequences, FiniteSets, TLC

VARIABLES
    now,        \* wall clock in seconds: Math.floor(Date.now() / 1000)
    published,  \* the signed events that exist on the relay network
    inflight,   \* deliveries [src, ev] a relay has sent and the client has not handled yet
    arrivals,   \* the events the relay pool has returned to the client, in arrival order
    raced,      \* history: dedup keys of which two sources had a delivery in flight at once
    input,      \* the argument a function of the event library is called with
    output,     \* what the call returned, <<>> before the call
    stakes,     \* the stake records, by transaction id
    refundable, \* the ids of the staked records a sweep has found refundable
    signals,    \* the campaign ids an abuse determination has been received for
    wizard,     \* CreateCampaign: [currentStep, formData]
    card,       \* the action card of the campaign page: its useState fields and the
                \* sends that await their timer
    gateway     \* /api/reps: [cache, request, response, effects], the KV store, the last
                \* request, its response and what the handler did to reach it

\* the state of a call to a function of the event library
harness == <<input, output>>
\* the state of the stake escrow
escrow == <<stakes, refundable, signals>>
\* the state of the pages
pages == <<wizard, card>>

vars == <<now, published, inflight, arrivals, raced, input, output, stakes, refundable, signals,
          wizard, card, gateway>>

\* CreateCampaign: useState<CreateStep>('details') and the defaultValues of useForm; a
\* text field is its length, targetLevels the number of levels ticked
WizardStart ==
    [currentStep |-> "details",
     formData |-> [title |-> 0, pitch |-> 0, description |-> 0, category |-> "undefined",
                   targetLevels |-> 0, templateSubject |-> 0, templateBody |-> 0]]

\* CampaignDetail: the initial values of its useState fields; sending counts the calls of
\* handleSendMessage that wait for their timer
CardStart ==
    [actionStep |-> "null", zipCode |-> "", representatives |-> <<>>,
     messageDraft |-> FALSE, isTakingAction |-> FALSE, actionCompleted |-> FALSE,
     sending |-> 0]

\* the ZIP codes the KV store may hold an entry for
GatewayZips == {<<"9", "4", "1", "1", "0">>, <<"1", "0", "0", "0", "1">>}

\* /api/reps before any request: nothing cached (<<>> under every key), no request, no
\* response
GatewayStart ==
    [cache |-> [z \in GatewayZips |-> <<>>], request |-> <<>>, response |-> <<>>,
     effects |-> {}]

----------------------------------------------------------------------------
(* Program constants *)

CAMPAIGN_KIND == 31100
CAMPAIGN_UPDATE_KIND == 31101
ACTION_ATTESTATION_KIND == 31102
\* useCampaignMetrics: const oneDayAgo = now - 86400
DAY == 86400
\* useCampaignMetrics: limit: 1000
METRICS_QUERY_LIMIT == 1000
\* CampaignFeed: limit: 50
FEED_QUERY_LIMIT == 50
\* DEFAULT_RATE_LIMIT_CONFIG
actionsPerCampaignPerDay == 1
campaignsCreatedPerDay == 5

----------------------------------------------------------------------------
(* Bounds of the model *)

\* attestation events that may exist on the network
MaxAttestations == 2
\* campaign events that may exist in the feed specification
MaxFeedCampaigns == 2
\* campaign events that may exist in the creation specification
MaxCreated == 6
\* campaign update events that may exist
MaxUpdates == 2
\* nonces generateNonce may draw
MaxNonce == 4
\* deliveries that may be in flight at once
MaxInflight == 2
\* stake records that may exist
MaxStakes == 2
\* representatives a lookup may find
MaxReps == 2

Pubkeys == {"K1", "K2"}
Relays == {"r1", "r2"}
\* the instants the clock visits: T = 1050, T + 1, T + 23h59m, T + 24h00m01s
Clock == {1000, 1050, 1051, 87390, 87451}
\* the ZIP codes a user may enter
ZipCodes == {"94110", "10001"}
\* the timestamp tags a hand-made attestation carries: a past instant and a future one
ForgedTimestamps == {1000, 87451}
Nonces == 1..MaxNonce

----------------------------------------------------------------------------
(* Strings as sequences of characters, and the conversions the code uses *)

DigitChars == <<"0", "1", "2", "3", "4", "5", "6", "7", "8", "9">>

IsDigit(c) == \E i \in 1..10 : DigitChars[i] = c
DigitVal(c) == (CHOOSE i \in 1..10 : DigitChars[i] = c) - 1

\* Number.prototype.toString / String(n) for n >= 0
RECURSIVE NumToString(_)
NumToString(n) ==
    IF n < 10 THEN <<DigitChars[n + 1]>>
    ELSE Append(NumToString(n \div 10), DigitChars[(n % 10) + 1])

\* A JavaScript number that may be NaN: <<>> is NaN, <<n>> is the number n.
NaN == <<>>
Num(n) == <<n>>

RECURSIVE ParseDigits(_, _)
ParseDigits(s, acc) ==
    IF s = <<>> \/ ~IsDigit(Head(s)) THEN acc
    ELSE ParseDigits(Tail(s), acc * 10 + DigitVal(Head(s)))

\* parseInt(s): an optional sign, then the longest prefix of digits; NaN without a digit
ParseInt(s) ==
    IF s = <<>> THEN NaN
    ELSE IF Head(s) = "-"
         THEN IF Tail(s) # <<>> /\ IsDigit(Head(Tail(s)))
              THEN Num(0 - ParseDigits(Tail(s), 0))
              ELSE NaN
         ELSE IF IsDigit(Head(s)) THEN Num(ParseDigits(s, 0)) ELSE NaN

\* A tag value whose JavaScript type matters: the client writes the timestamp of an
\* attestation as a number, NIP.md writes it as a string.
JsNumber(n) == <<"number", n>>
JsString(s) == <<"string", s>>

\* String(v), the coercion parseInt applies to its argument
JsToString(v) == IF v[1] = "number" THEN NumToString(v[2]) ELSE v[2]

\* x >= y in JavaScript: false when x is NaN
NumGE(x, y) == x # NaN /\ x[1] >= y

\* onSubmit: title.toLowerCase().replace(/[^a-z0-9]+/g, '-').replace(/^-|-$/g, ''),
\* on the titles of the model
Slug(title) ==
    CASE title = "Save Park" -> "save-park"
      [] title = "Clean Air!" -> "clean-air"

\* onSubmit: slug + '-' + Date.now().toString().slice(-6), the last six digits of the
\* clock in milliseconds (Date.now() = t * 1000); the pair stands for the joined string
CampaignIdOf(title, t) == <<Slug(title), (t * 1000) % 1000000>>

----------------------------------------------------------------------------
(* Tags *)

\* tags.find(t => t[0] === name): the first such tag, <<>> when there is none
RECURSIVE FindTag(_, _)
FindTag(tags, name) ==
    IF tags = <<>> THEN <<>>
    ELSE IF Head(tags)[1] = name THEN Head(tags) ELSE FindTag(Tail(tags), name)

\* tags.some(t => t[0] === name)
HasTag(tags, name) == \E i \in 1..Len(tags) : tags[i][1] = name

\* tags.filter(t => t[0] === name).map(t => t[1])
RECURSIVE TagValues(_, _)
TagValues(tags, name) ==
    IF tags = <<>> THEN <<>>
    ELSE IF Head(tags)[1] = name THEN <<Head(tags)[2]>> \o TagValues(Tail(tags), name)
         ELSE TagValues(Tail(tags), name)

----------------------------------------------------------------------------
(* Events *)

isCampaignEvent(ev) == ev.kind = CAMPAIGN_KIND
isCampaignUpdateEvent(ev) == ev.kind = CAMPAIGN_UPDATE_KIND
isActionAttestationEvent(ev) == ev.kind = ACTION_ATTESTATION_KIND

\* a validator that does not ask for the title tag
validateCampaignEventNoTitle(ev) ==
    /\ ev.kind = CAMPAIGN_KIND
    /\ HasTag(ev.tags, "d")
    /\ HasTag(ev.tags, "category")
    /\ HasTag(ev.tags, "target_level")
    /\ HasTag(ev.tags, "alt")

validateCampaignEvent(ev) ==
    /\ ev.kind = CAMPAIGN_KIND
    /\ HasTag(ev.tags, "d")
    /\ HasTag(ev.tags, "title")
    /\ HasTag(ev.tags, "category")
    /\ HasTag(ev.tags, "target_level")
    /\ HasTag(ev.tags, "alt")

validateActionAttestationEvent(ev) ==
    /\ ev.kind = ACTION_ATTESTATION_KIND
    /\ HasTag(ev.tags, "e")
    /\ HasTag(ev.tags, "d")
    /\ HasTag(ev.tags, "timestamp")
    /\ HasTag(ev.tags, "nonce")
    /\ HasTag(ev.tags, "alt")

\* useNostrPublish: the event template signed by the logged-in user at the current time
SignEvent(user, t, kind, content, tags) ==
    [kind |-> kind, pubkey |-> user, created_at |-> t, content |-> content, tags |-> tags]

\* the value of the first tag called name (the tag must be there)
TagValue(ev, name) == FindTag(ev.tags, name)[2]

\* event.id: the NIP-01 hash of the event's fields, collision free, modelled by the fields
\* themselves
EventId(ev) == <<ev.kind, ev.pubkey, ev.created_at, ev.tags, ev.content>>

Attestations(S) == {ev \in S : isActionAttestationEvent(ev)}
Campaigns(S) == {ev \in S : isCampaignEvent(ev)}
Updates(S) == {ev \in S : isCampaignUpdateEvent(ev)}

\* generateNonce: a random 32-byte token, modelled as a nonce no published event carries
UsedNonces ==
    {TagValue(ev, "nonce") : ev \in {a \in Attestations(published) : HasTag(a.tags, "nonce")}}
generateNonce == CHOOSE n \in Nonces \ UsedNonces : \A m \in Nonces \ UsedNonces : n <= m

\* The anti-replay identity of an attestation: (actor key, campaign id, nonce); no nonce
\* of generateNonce is 0, which stands for the nonce of an event that has none
DedupKey(ev) ==
    <<ev.pubkey, TagValue(ev, "d"),
      IF HasTag(ev.tags, "nonce") THEN TagValue(ev, "nonce") ELSE 0>>

----------------------------------------------------------------------------
(* The relay pool: what nostr.query returns *)

RECURSIVE SeqToSet(_)
SeqToSet(s) == IF s = <<>> THEN {} ELSE {Head(s)} \cup SeqToSet(Tail(s))

Take(s, n) == IF Len(s) <= n THEN s ELSE SubSeq(s, 1, n)

\* nostr.query([{kinds: [kind], '#name': [value], limit}]) over the events received so
\* far: an event matches when it is of the kind and carries the tag [name, value].  The
\* relays are not trusted to keep one event per (kind, pubkey, d): whatever matches the
\* filter may come back.
QueryByTag(evs, kind, name, value, limit) ==
    LET Match(ev) == ev.kind = kind /\ \E i \in 1..Len(ev.tags) : ev.tags[i] = <<name, value>>
    IN  Take(SelectSeq(evs, Match), limit)

\* nostr.query([{kinds: [kind], '#d': [d], limit}])
QueryByD(evs, kind, d, limit) == QueryByTag(evs, kind, "d", d, limit)

----------------------------------------------------------------------------
(* useCampaignMetrics *)

\* the attestation's time as the hot filter reads it
HotTimestamp(a) ==
    LET timestamp == FindTag(a.tags, "timestamp")
    IN  IF timestamp # <<>> THEN ParseInt(JsToString(timestamp[2])) ELSE Num(a.created_at)

IsHot(a, t) == isActionAttestationEvent(a) /\ NumGE(HotTimestamp(a), t - DAY)

\* metrics whose total counts each user once
useCampaignMetricsPerUser(evs, campaignId, t) ==
    LET attestations == QueryByD(evs, ACTION_ATTESTATION_KIND, campaignId, METRICS_QUERY_LIMIT)
        Hot(a) == IsHot(a, t)
        counted == SelectSeq(attestations, isActionAttestationEvent)
    IN  [totalActions |-> Cardinality({counted[i].pubkey : i \in 1..Len(counted)}),
         hotActions |-> Len(SelectSeq(attestations, Hot)),
         shareCount |-> 0,
         reactionCount |-> 0,
         commentCount |-> 0]

useCampaignMetrics(evs, campaignId, t) ==
    LET attestations == QueryByD(evs, ACTION_ATTESTATION_KIND, campaignId, METRICS_QUERY_LIMIT)
        Hot(a) == IsHot(a, t)
    IN  [totalActions |-> Len(SelectSeq(attestations, isActionAttestationEvent)),
         hotActions |-> Len(SelectSeq(attestations, Hot)),
         shareCount |-> 0,
         reactionCount |-> 0,
         commentCount |-> 0]

\* the attestation events the metrics of a campaign count: the code's accepted records
Counted(evs, campaignId) ==
    SelectSeq(QueryByD(evs, ACTION_ATTESTATION_KIND, campaignId, METRICS_QUERY_LIMIT),
              isActionAttestationEvent)

----------------------------------------------------------------------------
(* The campaign of Scenario A *)

\* onSubmit / createCampaign: the campaign event of a valid form
CampaignEventOf(user, t, title, category, targetLevels) ==
    SignEvent(user, t, CAMPAIGN_KIND, "text",
        <<(<<"d", CampaignIdOf(title, t)>>),
          (<<"title", title>>),
          (<<"category", category>>)>>
        \o [i \in 1..Len(targetLevels) |-> <<"target_level", targetLevels[i]>>]
        \o <<(<<"created_at", t>>),
             (<<"status", "active">>),
             (<<"alt", <<"Campaign: ", title>> >>)>>)

SavePark == CampaignEventOf("K1", 1000, "Save Park", "environment", <<"local">>)

----------------------------------------------------------------------------
(* Actions *)

\* the campaign ids of the campaigns the client has received
CampaignIds == {TagValue(c, "d") : c \in Campaigns(SeqToSet(arrivals))}

\* the clock advances
Tick ==
    /\ \E t \in Clock : t > now /\ now' = t
    /\ UNCHANGED <<published, inflight, arrivals, raced, harness, escrow, pages, gateway>>

\* the mock lookup of CampaignDetail: the same two representatives for every ZIP code
lookupRepresentatives(zipCode) ==
    <<[id |-> "senator-1", name |-> "Senator Jane Smith",
       contact |-> "senator.smith@senate.gov"],
      [id |-> "rep-1", name |-> "Rep. John Doe",
       contact |-> "https://doe.house.gov/contact"]>>

\* the attestation with the ZIP code carried in a tag of its own
ActionAttestationWithZip(user, campaign, t, nonce, zipCode, representatives) ==
    SignEvent(user, t, ACTION_ATTESTATION_KIND,
        <<"I took action on ", TagValue(campaign, "title")>>,
        <<(<<"e", EventId(campaign)>>),
          (<<"d", TagValue(campaign, "d")>>),
          (<<"timestamp", JsNumber(t)>>),
          (<<"nonce", nonce>>),
          (<<"rep_count", JsNumber(Len(representatives))>>),
          (<<"zip", zipCode>>),
          (<<"alt", <<"Action on ", TagValue(campaign, "title")>>>>)>>)

\* handleSendMessage, createEvent({...}): the attestation published at time t by a user
\* who entered zipCode and for whom the lookup found representatives
ActionAttestationOf(user, campaign, t, nonce, zipCode, representatives) ==
    SignEvent(user, t, ACTION_ATTESTATION_KIND,
        <<"I took action on ", TagValue(campaign, "title")>>,
        <<(<<"e", EventId(campaign)>>),
          (<<"d", TagValue(campaign, "d")>>),
          (<<"timestamp", JsNumber(t)>>),
          (<<"nonce", nonce>>),
          (<<"rep_count", JsNumber(Len(representatives))>>),
          (<<"alt", <<"Action on ", TagValue(campaign, "title")>>>>)>>)

\* CampaignDetail.handleSendMessage: the logged-in user completes the action flow on
\* the page of campaignId; once the page has loaded the campaign and the stubbed send
\* is over, the attestation is published.
HandleSendMessage(user, campaignId, zipCode) ==
    LET loaded == QueryByD(arrivals, CAMPAIGN_KIND, campaignId, 1)
    IN  /\ loaded # <<>>
        /\ Cardinality(Attestations(published)) < MaxAttestations
        /\ Nonces \ UsedNonces # {}
        /\ published' = published \cup
              {ActionAttestationOf(user, loaded[1], now, generateNonce, zipCode,
                                   lookupRepresentatives(zipCode))}
        /\ UNCHANGED <<now, inflight, arrivals, raced, harness, escrow, pages, gateway>>

\* Another client signs an attestation on the campaign as NIP.md lays it out: the
\* timestamp tag (a string) and the nonce are whatever it chooses, a fresh nonce or one
\* already used (the relays are open: they store any signed event).
ForeignAttestation(user, ts, n) ==
    /\ Cardinality(Attestations(published)) < MaxAttestations
    /\ LET ev == SignEvent(user, now, ACTION_ATTESTATION_KIND, "took action",
                    <<(<<"e", EventId(SavePark)>>),
                      (<<"d", TagValue(SavePark, "d")>>),
                      (<<"timestamp", JsString(NumToString(ts))>>),
                      (<<"nonce", n>>),
                      (<<"rep_count", JsString(<<"3">>)>>),
                      (<<"alt", "Action">>)>>)
       IN  /\ ev \notin published
           /\ published' = published \cup {ev}
    /\ UNCHANGED <<now, inflight, arrivals, raced, harness, escrow, pages, gateway>>

\* the tags validateActionAttestationEvent requires besides d (an event without d does
\* not match the #d filter of the metrics query)
RequiredAttestationTags == {"e", "timestamp", "nonce", "alt"}

\* Another client signs a kind-31102 event on the campaign with one required tag left out.
ForeignMalformedAttestation(user, left) ==
    /\ Cardinality(Attestations(published)) < MaxAttestations
    /\ LET all == <<(<<"e", EventId(SavePark)>>),
                    (<<"d", TagValue(SavePark, "d")>>),
                    (<<"timestamp", JsString(NumToString(now))>>),
                    (<<"nonce", generateNonce>>),
                    (<<"alt", "Action">>)>>
           Kept(tag) == tag[1] # left
           ev == SignEvent(user, now, ACTION_ATTESTATION_KIND, "took action",
                           SelectSeq(all, Kept))
       IN  /\ Nonces \ UsedNonces # {}
           /\ ev \notin published
           /\ published' = published \cup {ev}
    /\ UNCHANGED <<now, inflight, arrivals, raced, harness, escrow, pages, gateway>>

\* A relay sends an event it stores towards the client.
RelaySend(r, ev) ==
    /\ ev \in published
    /\ [src |-> r, ev |-> ev] \notin inflight
    /\ Cardinality(inflight) < MaxInflight
    /\ inflight' = inflight \cup {[src |-> r, ev |-> ev]}
    /\ raced' =
         IF isActionAttestationEvent(ev)
            /\ \E m \in inflight : /\ isActionAttestationEvent(m.ev)
                                   /\ m.src # r
                                   /\ DedupKey(m.ev) = DedupKey(ev)
         THEN raced \cup {DedupKey(ev)}
         ELSE raced
    /\ UNCHANGED <<now, published, arrivals, harness, escrow, pages, gateway>>

\* The pool hands a delivery to the client: events are a set by event id, nothing else
\* is checked before the event joins the query results.
ClientReceive(m) ==
    /\ m \in inflight
    /\ inflight' = inflight \ {m}
    /\ arrivals' = IF m.ev \in SeqToSet(arrivals) THEN arrivals ELSE Append(arrivals, m.ev)
    /\ UNCHANGED <<now, published, raced, harness, escrow, pages, gateway>>

----------------------------------------------------------------------------
(* Specification of attestation ingestion: Scenario A's campaign is live *)

Init ==
    /\ now = 1000
    /\ published = {SavePark}
    /\ inflight = {}
    /\ arrivals = <<SavePark>>
    /\ raced = {}
    /\ input = <<>>
    /\ output = <<>>
    /\ stakes = <<>>
    /\ refundable = {}
    /\ signals = {}
    /\ wizard = WizardStart
    /\ card = CardStart
    /\ gateway = GatewayStart

Next ==
    \/ Tick
    \/ \E user \in Pubkeys, c \in CampaignIds, zipCode \in ZipCodes :
            HandleSendMessage(user, c, zipCode)
    \/ \E user \in Pubkeys, ts \in ForgedTimestamps, n \in UsedNonces \cup {generateNonce} :
            ForeignAttestation(user, ts, n)
    \/ \E r \in Relays, ev \in published : RelaySend(r, ev)
    \/ \E m \in inflight : ClientReceive(m)

Spec == Init /\ [][Next]_vars

\* The honest clients alone: every attestation comes from handleSendMessage.
NextAction ==
    \/ Tick
    \/ \E user \in Pubkeys, c \in CampaignIds, zipCode \in ZipCodes :
            HandleSendMessage(user, c, zipCode)
    \/ \E r \in Relays, ev \in published : RelaySend(r, ev)
    \/ \E m \in inflight : ClientReceive(m)

SpecAction == Init /\ [][NextAction]_vars

\* Honest clients and clients that leave out a required tag.
NextOpen ==
    \/ Tick
    \/ \E user \in Pubkeys, c \in CampaignIds, zipCode \in ZipCodes :
            HandleSendMessage(user, c, zipCode)
    \/ \E user \in Pubkeys, left \in RequiredAttestationTags :
            ForeignMalformedAttestation(user, left)
    \/ \E r \in Relays, ev \in published : RelaySend(r, ev)
    \/ \E m \in inflight : ClientReceive(m)

SpecOpen == Init /\ [][NextOpen]_vars

----------------------------------------------------------------------------
(* Campaign records *)

\* the value of an optional chain on a missing tag: tag?.[1]
Undefined == "undefined"

ParseError(what) == [error |-> what]

\* parseCampaign
parseCampaign(event) ==
    LET tags == event.tags
        dTag == FindTag(tags, "d")
        titleTag == FindTag(tags, "title")
        altTag == FindTag(tags, "alt")
        statusTag == FindTag(tags, "status")
        createdAtTag == FindTag(tags, "created_at")
    IN  IF dTag = <<>> \/ titleTag = <<>>
        THEN ParseError("Invalid campaign event: missing required tags")
        ELSE [id |-> dTag[2],
              title |-> titleTag[2],
              description |-> event.content,
              categories |-> TagValues(tags, "category"),
              targetLevels |-> TagValues(tags, "target_level"),
              status |-> IF statusTag # <<>> /\ statusTag[2] # "" THEN statusTag[2]
                         ELSE "active",
              creatorPubkey |-> event.pubkey,
              createdAt |-> IF createdAtTag # <<>> /\ createdAtTag[2] # 0
                            THEN createdAtTag[2] ELSE event.created_at,
              eventId |-> EventId(event),
              alt |-> IF altTag # <<>> THEN altTag[2] ELSE Undefined,
              links |-> TagValues(tags, "link")]

\* parseCampaignUpdate
parseCampaignUpdate(event) ==
    LET tags == event.tags
        dTag == FindTag(tags, "d")
        altTag == FindTag(tags, "alt")
        statusTag == FindTag(tags, "status")
        updatedAtTag == FindTag(tags, "updated_at")
    IN  IF dTag = <<>> \/ altTag = <<>>
        THEN ParseError("Invalid campaign update event: missing required tags")
        ELSE [campaignId |-> dTag[2],
              message |-> event.content,
              status |-> IF statusTag # <<>> THEN statusTag[2] ELSE Undefined,
              updatedAt |-> IF updatedAtTag # <<>> /\ updatedAtTag[2] # <<>>
                            THEN updatedAtTag[2] ELSE event.created_at,
              eventId |-> EventId(event),
              updaterPubkey |-> event.pubkey]

\* A reader that applied the status of the last update received for the campaign,
\* whoever signed it.
CampaignShownAnyUpdate(evs, campaignId) ==
    LET base == parseCampaign(QueryByD(evs, CAMPAIGN_KIND, campaignId, 1)[1])
        IsStatusUpdate(ev) == HasTag(ev.tags, "status")
        ups == SelectSeq(QueryByD(evs, CAMPAIGN_UPDATE_KIND, campaignId, METRICS_QUERY_LIMIT),
                         IsStatusUpdate)
    IN  IF ups = <<>> THEN base
        ELSE [base EXCEPT !.status = TagValue(ups[Len(ups)], "status")]

\* CampaignDetail: the campaign of the page is the first event the query by d returns,
\* and the record shown is parseCampaign of that event alone.
CampaignShown(evs, campaignId) ==
    parseCampaign(QueryByD(evs, CAMPAIGN_KIND, campaignId, 1)[1])

\* parseCampaign threw
Threw(result) == "error" \in DOMAIN result

\* useCampaigns: the query for the active campaigns (of a category when one is given, ""
\* for none) and the records of its result, as useQuery hands them out: {data, error}.
\* One event parseCampaign throws on rejects the whole query: there is no data.
useCampaigns(evs, category, limit) ==
    LET Match(ev) ==
            /\ ev.kind = CAMPAIGN_KIND
            /\ \E i \in 1..Len(ev.tags) : ev.tags[i] = <<"status", "active">>
            /\ category # "" => \E i \in 1..Len(ev.tags) : ev.tags[i] = <<"t", category>>
        events == Take(SelectSeq(evs, Match), limit)
        campaignEvents == SelectSeq(events, isCampaignEvent)
    IN  IF \E i \in 1..Len(campaignEvents) : Threw(parseCampaign(campaignEvents[i]))
        THEN [data |-> <<>>, error |-> "Invalid campaign event: missing required tags"]
        ELSE [data |-> [i \in 1..Len(campaignEvents) |-> parseCampaign(campaignEvents[i])],
              error |-> "null"]

----------------------------------------------------------------------------
(* The campaign feed *)

FeedTabs == {"new", "hot", "trending"}

\* Array.prototype.sort((a, b) => b.created_at - a.created_at): a stable sort, newest
\* first; events with equal created_at keep the order they had in the array.
InsertByCreatedAt(sorted, x) ==
    LET k == Cardinality({i \in 1..Len(sorted) : sorted[i].created_at >= x.created_at})
    IN  SubSeq(sorted, 1, k) \o <<x>> \o SubSeq(sorted, k + 1, Len(sorted))

RECURSIVE SortByCreatedAt(_)
SortByCreatedAt(s) ==
    IF s = <<>> THEN <<>>
    ELSE InsertByCreatedAt(SortByCreatedAt(SubSeq(s, 1, Len(s) - 1)), s[Len(s)])

\* CampaignFeed: the query of the tab and the ordering the tab applies to its result
CampaignFeed(evs, tab) ==
    LET events == QueryByTag(evs, CAMPAIGN_KIND, "t", "active", FEED_QUERY_LIMIT)
        campaignEvents == SelectSeq(events, isCampaignEvent)
    IN  CASE tab = "new" -> SortByCreatedAt(campaignEvents)
          [] tab = "hot" -> SortByCreatedAt(campaignEvents)
          [] tab = "trending" -> SortByCreatedAt(campaignEvents)
          [] OTHER -> campaignEvents

----------------------------------------------------------------------------
(* Campaign creation and update *)

\* the forms that pass the validation of the wizard
Forms ==
    {[title |-> "Save Park", category |-> "environment", targetLevels |-> <<"local">>],
     [title |-> "Clean Air!", category |-> "healthcare", targetLevels |-> <<"federal", "state">>]}

\* CreateCampaign.onSubmit: the logged-in user publishes the campaign of the form
OnSubmit(user, data) ==
    /\ published' = published \cup
          {CampaignEventOf(user, now, data.title, data.category, data.targetLevels)}
    /\ UNCHANGED <<now, inflight, arrivals, raced, harness, escrow, pages, gateway>>

\* the campaign ids other clients give their campaigns
ForeignIds == {<<"save-local-park", 2024>>, <<"clean-water", 2024>>}

\* Another client publishes a campaign as NIP.md lays it out, with the t tag the feed
\* query asks for.
ForeignCampaign(user, d) ==
    /\ published' = published \cup
          {SignEvent(user, now, CAMPAIGN_KIND, "text",
              <<(<<"d", d>>),
                (<<"title", "Save the Local Park">>),
                (<<"category", "environment">>),
                (<<"target_level", "local">>),
                (<<"created_at", now>>),
                (<<"status", "active">>),
                (<<"t", "active">>),
                (<<"alt", "Campaign">>)>>)}
    /\ UNCHANGED <<now, inflight, arrivals, raced, harness, escrow, pages, gateway>>

\* Another client publishes a kind-31100 event that lacks the title tag.
ForeignMalformedCampaign(user, d) ==
    /\ published' = published \cup
          {SignEvent(user, now, CAMPAIGN_KIND, "text",
              <<(<<"d", d>>),
                (<<"category", "environment">>),
                (<<"target_level", "local">>),
                (<<"status", "active">>),
                (<<"alt", "Campaign">>)>>)}
    /\ UNCHANGED <<now, inflight, arrivals, raced, harness, escrow, pages, gateway>>

Statuses == {"active", "completed", "archived"}

\* the parameters of updateCampaign: "" stands for a status or a message left out
UpdateParams ==
    [campaignDTag : {TagValue(SavePark, "d")}, status : Statuses \cup {""},
     message : {"", "msg"}]

\* useCampaignPublish.updateCampaign: any logged-in user may call it for any campaign
UpdateCampaign(user, params) ==
    LET tags == <<(<<"d", params.campaignDTag>>), (<<"alt", "Campaign Update">>)>>
                \o (IF params.status # "" THEN <<(<<"status", params.status>>)>> ELSE <<>>)
                \o (IF params.message # "" THEN <<(<<"updated_at", NumToString(now)>>)>>
                    ELSE <<>>)
    IN  /\ published' = published \cup
              {SignEvent(user, now, CAMPAIGN_UPDATE_KIND, params.message, tags)}
        /\ UNCHANGED <<now, inflight, arrivals, raced, harness, escrow, pages, gateway>>

----------------------------------------------------------------------------
(* Specification of the feed: campaigns of this client and of others reach the feed *)

InitFeed ==
    /\ now = 1000
    /\ published = {}
    /\ inflight = {}
    /\ arrivals = <<>>
    /\ raced = {}
    /\ input = <<>>
    /\ output = <<>>
    /\ stakes = <<>>
    /\ refundable = {}
    /\ signals = {}
    /\ wizard = WizardStart
    /\ card = CardStart
    /\ gateway = GatewayStart

NextFeed ==
    \/ Tick
    \/ \E user \in Pubkeys, data \in Forms :
            Cardinality(Campaigns(published)) < MaxFeedCampaigns /\ OnSubmit(user, data)
    \/ \E user \in Pubkeys, d \in ForeignIds :
            Cardinality(Campaigns(published)) < MaxFeedCampaigns /\ ForeignCampaign(user, d)
    \/ \E r \in Relays, ev \in published : RelaySend(r, ev)
    \/ \E m \in inflight : ClientReceive(m)

SpecFeed == InitFeed /\ [][NextFeed]_vars

(* Specification of the feed with actions: campaigns are published and acted on at one *)
(* query time *)

NextHot ==
    \/ \E user \in Pubkeys, d \in ForeignIds :
            Cardinality(Campaigns(published)) < MaxFeedCampaigns /\ ForeignCampaign(user, d)
    \/ \E user \in Pubkeys, c \in CampaignIds, zipCode \in ZipCodes :
            HandleSendMessage(user, c, zipCode)
    \/ \E r \in Relays, ev \in published : RelaySend(r, ev)
    \/ \E m \in inflight : ClientReceive(m)

SpecHot == InitFeed /\ [][NextHot]_vars

(* Specification of the campaign list: well-formed and malformed campaigns arrive *)

NextList ==
    \/ \E user \in Pubkeys, data \in Forms :
            Cardinality(Campaigns(published)) < MaxFeedCampaigns /\ OnSubmit(user, data)
    \/ \E user \in Pubkeys, d \in ForeignIds :
            /\ Cardinality(Campaigns(published)) < MaxFeedCampaigns
            /\ ForeignMalformedCampaign(user, d)
    \/ \E r \in Relays, ev \in published : RelaySend(r, ev)
    \/ \E m \in inflight : ClientReceive(m)

SpecList == InitFeed /\ [][NextList]_vars

(* Specification of campaign creation *)

NextCreate ==
    \/ Tick
    \/ \E user \in Pubkeys, data \in Forms :
            Cardinality(Campaigns(published)) < MaxCreated /\ OnSubmit(user, data)

SpecCreate == InitFeed /\ [][NextCreate]_vars

(* Specification of campaign updates: Scenario A's campaign is live *)

NextUpdate ==
    \/ Tick
    \/ \E user \in Pubkeys, params \in UpdateParams :
            Cardinality(Updates(published)) < MaxUpdates /\ UpdateCampaign(user, params)
    \/ \E r \in Relays, ev \in published : RelaySend(r, ev)
    \/ \E m \in inflight : ClientReceive(m)

SpecUpdate == Init /\ [][NextUpdate]_vars

(* Specification of the updates received within one clock second *)

NextUpdateNow ==
    \/ \E user \in Pubkeys, params \in UpdateParams :
            Cardinality(Updates(published)) < MaxUpdates /\ UpdateCampaign(user, params)
    \/ \E r \in Relays, ev \in published : RelaySend(r, ev)
    \/ \E m \in inflight : ClientReceive(m)

SpecUpdateNow == Init /\ [][NextUpdateNow]_vars

----------------------------------------------------------------------------
(* Calls of the validators of the event library *)

\* CampaignCategory
CampaignCategories ==
    {"environment", "healthcare", "education", "civil_rights", "economy", "immigration",
     "gun_control", "housing", "transportation", "technology", "criminal_justice",
     "election_reform", "government_transparency", "public_safety", "community"}

\* TargetLevel
TargetLevels == {"federal", "state", "local"}

\* the tags [name, v] for the values v of a sequence
TagsOf(name, values) == [i \in 1..Len(values) |-> <<name, values[i]>>]

\* Kind-31100 events as any client may sign them: each required tag there or not, the
\* category and target_level values inside and outside the supported lists.
CandidateCampaign(hasD, hasTitle, categories, levels, hasAlt) ==
    SignEvent("K2", 1000, CAMPAIGN_KIND, "text",
        (IF hasD THEN <<(<<"d", <<"save-local-park", 2024>> >>)>> ELSE <<>>)
        \o (IF hasTitle THEN <<(<<"title", "Save the Local Park">>)>> ELSE <<>>)
        \o TagsOf("category", categories)
        \o TagsOf("target_level", levels)
        \o (IF hasAlt THEN <<(<<"alt", "Campaign">>)>> ELSE <<>>))

CampaignCandidates ==
    {CandidateCampaign(hasD, hasTitle, categories, levels, hasAlt) :
        hasD \in BOOLEAN, hasTitle \in BOOLEAN,
        categories \in {<<>>, <<"environment">>, <<"sports">>, <<"sports", "community">>},
        levels \in {<<>>, <<"local">>, <<"galactic">>},
        hasAlt \in BOOLEAN}

\* the state before a call of a library function on some event of the set
InitCall(events) ==
    /\ now = 1000
    /\ published = {}
    /\ inflight = {}
    /\ arrivals = <<>>
    /\ raced = {}
    /\ input \in events
    /\ output = <<>>
    /\ stakes = <<>>
    /\ refundable = {}
    /\ signals = {}
    /\ wizard = WizardStart
    /\ card = CardStart
    /\ gateway = GatewayStart

\* validateCampaignEvent(event) is called and returns
CallValidateCampaignEvent ==
    /\ output = <<>>
    /\ output' = <<validateCampaignEvent(input)>>
    /\ UNCHANGED <<now, published, inflight, arrivals, raced, input, escrow, pages, gateway>>

\* Kind-31102 events as any client may sign them: each required tag there or not, the
\* timestamp a number, a numeric string or no number at all, the nonce short or of the
\* length generateNonce gives, rep_count left out, a count, negative or no number.
CandidateAttestation(hasE, hasD, timestamps, nonces, repCounts, hasAlt) ==
    SignEvent("K2", 1050, ACTION_ATTESTATION_KIND, "took action",
        (IF hasE THEN <<(<<"e", EventId(SavePark)>>)>> ELSE <<>>)
        \o (IF hasD THEN <<(<<"d", TagValue(SavePark, "d")>>)>> ELSE <<>>)
        \o TagsOf("timestamp", timestamps)
        \o TagsOf("nonce", nonces)
        \o TagsOf("rep_count", repCounts)
        \o (IF hasAlt THEN <<(<<"alt", "Action">>)>> ELSE <<>>))

\* the hexadecimal string generateNonce returns for 32 bytes of value 0xa1
NonceOf32Bytes == [i \in 1..64 |-> IF i % 2 = 1 THEN "a" ELSE "1"]

AttestationCandidates ==
    {CandidateAttestation(hasE, hasD, timestamps, nonces, repCounts, hasAlt) :
        hasE \in BOOLEAN, hasD \in BOOLEAN,
        timestamps \in {<<>>, <<JsNumber(1050)>>, <<JsString(<<"1", "0", "5", "0">>)>>,
                        <<JsString(<<"s", "o", "o", "n">>)>>},
        nonces \in {<<>>, <<JsString(<<"n", "1">>)>>, <<JsString(NonceOf32Bytes)>>},
        repCounts \in {<<>>, <<JsNumber(3)>>, <<JsString(<<"3">>)>>,
                       <<JsString(<<"-", "1">>)>>, <<JsString(<<"x">>)>>},
        hasAlt \in BOOLEAN}

\* validateActionAttestationEvent(event) is called and returns
CallValidateActionAttestationEvent ==
    /\ output = <<>>
    /\ output' = <<validateActionAttestationEvent(input)>>
    /\ UNCHANGED <<now, published, inflight, arrivals, raced, input, escrow, pages, gateway>>

InitValidateAttestation == InitCall(AttestationCandidates)

SpecValidateAttestation ==
    InitValidateAttestation /\ [][CallValidateActionAttestationEvent]_vars

InitValidateCampaign == InitCall(CampaignCandidates)

\* parseActionAttestation
parseActionAttestation(event) ==
    LET tags == event.tags
        eTag == FindTag(tags, "e")
        dTag == FindTag(tags, "d")
        timestampTag == FindTag(tags, "timestamp")
        nonceTag == FindTag(tags, "nonce")
        repCountTag == FindTag(tags, "rep_count")
        altTag == FindTag(tags, "alt")
    IN  IF eTag = <<>> \/ dTag = <<>> \/ timestampTag = <<>> \/ nonceTag = <<>>
           \/ altTag = <<>>
        THEN ParseError("Invalid action attestation event: missing required tags")
        ELSE [campaignEventId |-> eTag[2],
              campaignId |-> dTag[2],
              userPubkey |-> event.pubkey,
              timestamp |-> timestampTag[2],
              nonce |-> nonceTag[2],
              repCount |-> IF repCountTag # <<>> THEN repCountTag[2] ELSE JsString(Undefined),
              eventId |-> EventId(event)]

\* an event is validated and parsed
CallValidateAndParse ==
    /\ output = <<>>
    /\ output' = IF isCampaignEvent(input)
                  THEN <<validateCampaignEvent(input), parseCampaign(input)>>
                  ELSE <<validateActionAttestationEvent(input), parseActionAttestation(input)>>
    /\ UNCHANGED <<now, published, inflight, arrivals, raced, input, escrow, pages, gateway>>

InitParse == InitCall(CampaignCandidates \cup AttestationCandidates)

SpecParse == InitParse /\ [][CallValidateAndParse]_vars

SpecValidateCampaign == InitValidateCampaign /\ [][CallValidateCampaignEvent]_vars

----------------------------------------------------------------------------
(* The campaign creation wizard (CreateCampaign) *)

\* const steps: CreateStep[] = ['details', 'template', 'stake', 'review']
CreateSteps == <<"details", "template", "stake", "review">>

\* steps.indexOf(step)
IndexOf(steps, step) == CHOOSE i \in DOMAIN steps : steps[i] = step

\* campaignSchema on title, pitch, description, category, targetLevels
DetailsValid(data) ==
    /\ data.title >= 5 /\ data.title <= 100
    /\ data.pitch >= 20 /\ data.pitch <= 280
    /\ data.description >= 50 /\ data.description <= 5000
    /\ data.category \in CampaignCategories
    /\ data.targetLevels >= 1

\* campaignSchema on templateSubject, templateBody
TemplateValid(data) ==
    /\ data.templateSubject <= 100
    /\ data.templateBody >= 50 /\ data.templateBody <= 2000

\* formState.isValid: the whole form passes campaignSchema
isValid(data) == DetailsValid(data) /\ TemplateValid(data)

\* what the user may have typed: each field on either side of a limit of the schema
WizardForms ==
    [title : {4, 9}, pitch : {19, 20}, description : {50}, category : {"undefined", "environment"},
     targetLevels : {0, 1}, templateSubject : {0, 101}, templateBody : {49, 50}]

\* the user edits the form
SetFormData(data) ==
    /\ wizard' = [wizard EXCEPT !.formData = data]
    /\ UNCHANGED <<now, published, inflight, arrivals, raced, harness, escrow, card, gateway>>

\* goToNextStep: the fields of the current step are validated; the step advances when
\* they pass
goToNextStep ==
    LET currentStep == wizard.currentStep
        valid == IF currentStep = "details" THEN DetailsValid(wizard.formData)
                 ELSE IF currentStep = "template" THEN TemplateValid(wizard.formData)
                 ELSE IF currentStep = "review" THEN isValid(wizard.formData)
                 ELSE FALSE
        currentIndex == IndexOf(CreateSteps, currentStep)
    IN  /\ wizard' = IF valid /\ currentIndex < Len(CreateSteps)
                     THEN [wizard EXCEPT !.currentStep = CreateSteps[currentIndex + 1]]
                     ELSE wizard
        /\ UNCHANGED <<now, published, inflight, arrivals, raced, harness, escrow, card, gateway>>

\* goToPreviousStep
goToPreviousStep ==
    LET currentIndex == IndexOf(CreateSteps, wizard.currentStep)
    IN  /\ wizard' = IF currentIndex > 1
                     THEN [wizard EXCEPT !.currentStep = CreateSteps[currentIndex - 1]]
                     ELSE wizard
        /\ UNCHANGED <<now, published, inflight, arrivals, raced, harness, escrow, card, gateway>>

\* The Next button is shown on every step but review, the Back button is enabled on every
\* step but details; the Publish button is shown on review only.
NextWizard ==
    \/ \E data \in WizardForms : SetFormData(data)
    \/ wizard.currentStep # "review" /\ goToNextStep
    \/ wizard.currentStep # "details" /\ goToPreviousStep

SpecWizard == InitFeed /\ [][NextWizard]_vars

\* the user keeps pressing Next
SpecWizardNext == SpecWizard /\ WF_vars(wizard.currentStep # "review" /\ goToNextStep)

----------------------------------------------------------------------------
(* The civic gateway: GET /api/reps (api/reps.ts) *)

\* api-contracts: CACHE_TTL, in milliseconds
CACHE_TTL == 24 * 60 * 60 * 1000
\* api-contracts: LOW_ACCURACY_THRESHOLD = 0.5, in hundredths
LOW_ACCURACY_THRESHOLD == 50

\* Date.now(), in milliseconds
DateNow == now * 1000

\* the headers every response carries
CorsHeaders ==
    {"Access-Control-Allow-Origin", "Access-Control-Allow-Methods",
     "Access-Control-Allow-Headers"}

Methods == {"GET", "OPTIONS", "POST"}

\* the zip parameter of a request: missing (<<>>), four digits, a letter among the
\* digits, six digits, or a ZIP code
ZipParams ==
    GatewayZips \cup {<<>>, <<"9", "4", "1", "1">>, <<"9", "4", "1", "1", "a">>,
                      <<"9", "4", "1", "1", "0", "0">>}

\* /^\d{5}$/.test(zipCode)
ZipRegexTest(zipCode) ==
    Len(zipCode) = 5 /\ \A i \in 1..Len(zipCode) : IsDigit(zipCode[i])

\* officials as the upstream API returns them; accuracy in hundredths
Feinstein ==
    [id |-> "ca_senator_feinstein_0", name |-> "Dianne Feinstein", office |-> "U.S. Senate",
     level |-> "federal", party |-> "Democratic", channels |-> "senator@senate.gov",
     accuracy |-> 95]
Doe ==
    [id |-> "ca_rep_doe_0", name |-> "John Doe", office |-> "U.S. House",
     level |-> "federal", party |-> "Republican", channels |-> "https://doe.house.gov/contact",
     accuracy |-> 40]

\* what the fetch of the upstream API may come back with: an error status, or officials
UpstreamAnswers ==
    {[ok |-> FALSE, officials |-> <<>>],
     [ok |-> TRUE, officials |-> <<Feinstein>>],
     [ok |-> TRUE, officials |-> <<Feinstein, Doe>>]}

\* new VercelResponse(JSON.stringify(body), {status, headers})
Response(status, body) == [status |-> status, headers |-> CorsHeaders, body |-> body]

\* a cache read that takes an entry of exactly CACHE_TTL milliseconds for valid
getCachedRepsInclusive(cache, zipCode, kvUp) ==
    IF kvUp /\ cache[zipCode] # <<>> /\ DateNow - cache[zipCode][1].timestamp <= CACHE_TTL
    THEN <<[data |-> cache[zipCode][1].data,
            timestamp |-> cache[zipCode][1].timestamp,
            cached |-> TRUE,
            lowAccuracy |-> cache[zipCode][1].lowAccuracy]>>
    ELSE <<>>

\* getCachedReps(`reps:${zipCode}`): <<>> for null; kvUp is whether the KV store answers
\* (when it throws, the catch returns null)
getCachedReps(cache, zipCode, kvUp) ==
    IF kvUp /\ cache[zipCode] # <<>> /\ DateNow - cache[zipCode][1].timestamp < CACHE_TTL
    THEN <<[data |-> cache[zipCode][1].data,
            timestamp |-> cache[zipCode][1].timestamp,
            cached |-> TRUE,
            lowAccuracy |-> cache[zipCode][1].lowAccuracy]>>
    ELSE <<>>

\* data.officials?.some(rep => rep.accuracy !== undefined && rep.accuracy < threshold)
LowAccuracy(officials) ==
    \E i \in 1..Len(officials) : officials[i].accuracy < LOW_ACCURACY_THRESHOLD

\* representatives.map(rep => ({id, name, office, level, party, channels,
\* ...(lowAccuracy && {accuracy})}))
MapRepresentatives(officials, lowAccuracy) ==
    [i \in 1..Len(officials) |->
        IF lowAccuracy
        THEN officials[i]
        ELSE [f \in DOMAIN officials[i] \ {"accuracy"} |-> officials[i][f]]]

\* cacheReps: kv.set(key, JSON.stringify(data)); a KV store that throws stores nothing
cacheReps(cache, zipCode, data, kvUp) ==
    IF kvUp THEN [cache EXCEPT ![zipCode] = <<data>>] ELSE cache

\* handler(req): one request from its arrival to its response
repsHandler(method, zipCode, kvUp, upstream) ==
    LET request == <<[method |-> method, zip |-> zipCode]>>
        Reply(response, cache, effects) ==
            gateway' = [cache |-> cache, request |-> request,
                        response |-> <<response>>, effects |-> effects]
        cached == getCachedReps(gateway.cache, zipCode, kvUp)
        lowAccuracy == LowAccuracy(upstream.officials)
        cacheData == [data |-> upstream.officials, timestamp |-> DateNow,
                      zipCode |-> zipCode, lowAccuracy |-> lowAccuracy]
        responseData == [success |-> TRUE,
                         accuracy |-> IF lowAccuracy THEN "low" ELSE "high",
                         representatives |->
                             MapRepresentatives(upstream.officials, lowAccuracy),
                         cached |-> FALSE,
                         zipCode |-> zipCode]
    IN  /\ IF method # "GET"
           THEN Reply(Response(405, [error |-> "Method not allowed"]), gateway.cache, {})
           ELSE IF method = "OPTIONS"
           THEN Reply(Response(200, <<>>), gateway.cache, {})
           ELSE IF zipCode = <<>>
           THEN Reply(Response(400, [error |-> "missing_parameter"]), gateway.cache, {})
           ELSE IF ~ZipRegexTest(zipCode)
           THEN Reply(Response(400, [error |-> "invalid_zip"]), gateway.cache, {})
           ELSE IF cached # <<>>
           THEN Reply(Response(200, cached[1]), gateway.cache, {"cacheRead"})
           ELSE IF ~upstream.ok
           THEN Reply(Response(500, [error |-> "service_error"]), gateway.cache,
                      {"cacheRead", "upstream"})
           ELSE Reply(Response(200, responseData),
                      cacheReps(gateway.cache, zipCode, cacheData, kvUp),
                      {"cacheRead", "upstream", "cacheWrite"})
        /\ UNCHANGED <<now, published, inflight, arrivals, raced, harness, escrow, pages>>

\* expirationTtl: the KV store drops an entry once it is CACHE_TTL old
KvExpire(zipCode) ==
    /\ gateway.cache[zipCode] # <<>>
    /\ DateNow - gateway.cache[zipCode][1].timestamp >= CACHE_TTL
    /\ gateway' = [gateway EXCEPT !.cache[zipCode] = <<>>]
    /\ UNCHANGED <<now, published, inflight, arrivals, raced, harness, escrow, pages>>

NextGateway ==
    \/ Tick
    \/ \E method \in Methods, zipCode \in ZipParams, kvUp \in BOOLEAN,
          upstream \in UpstreamAnswers :
            repsHandler(method, zipCode, kvUp, upstream)
    \/ \E zipCode \in GatewayZips : KvExpire(zipCode)

SpecGateway == InitFeed /\ [][NextGateway]_vars

----------------------------------------------------------------------------
(* Two runs of the take-action flow side by side: the same user on the same campaign,  *)
(* with a ZIP code and a list of representatives found for each run.                   *)

\* the representatives a lookup service may return (Representative: id, name, contact)
RepPool ==
    {[id |-> "senator-1", name |-> "Senator Jane Smith",
      contact |-> "senator.smith@senate.gov"],
     [id |-> "rep-1", name |-> "Rep. John Doe",
      contact |-> "https://doe.house.gov/contact"],
     [id |-> "rep-2", name |-> "Rep. Ann Lee",
      contact |-> "https://lee.house.gov/contact"]}

\* the lists of n representatives
RepLists(n) == [1..n -> RepPool]

\* a run of the flow: what the user entered, what the lookup found, and the clock and
\* the nonce at the moment of sending
FlowRuns(times, nonces) ==
    {[zipCode |-> z, representatives |-> reps, t |-> t, nonce |-> n] :
        z \in ZipCodes, reps \in UNION {RepLists(k) : k \in 1..MaxReps},
        t \in times, n \in nonces}

\* pairs of runs with the same number of representatives found
FlowRunPairs ==
    {pair \in FlowRuns({1000}, {1}) \X FlowRuns({1000, 1050}, {1, 2}) :
        Len(pair[1].representatives) = Len(pair[2].representatives)}

\* handleSendMessage publishes in each of the two runs
CallHandleSendMessage ==
    /\ output = <<>>
    /\ output' = <<ActionAttestationOf("K1", SavePark, input[1].t, input[1].nonce,
                        input[1].zipCode, input[1].representatives),
                   ActionAttestationOf("K1", SavePark, input[2].t, input[2].nonce,
                        input[2].zipCode, input[2].representatives)>>
    /\ UNCHANGED <<now, published, inflight, arrivals, raced, input, escrow, pages, gateway>>

InitAttest == InitCall(FlowRunPairs)

SpecAttest == InitAttest /\ [][CallHandleSendMessage]_vars

----------------------------------------------------------------------------
(* The stake escrow.  The repository declares the record (CashuStakeTransaction) and   *)
(* the configuration (DEFAULT_CASHU_STAKE_CONFIG); the transitions follow section 4.5  *)
(* of the specification.  The declared status has three values, so Refundable is the   *)
(* staked record a timer or a sweep has found due: its id is in refundable.            *)

\* DEFAULT_CASHU_STAKE_CONFIG.refundDelayMs
refundDelayMs == 24 * 60 * 60 * 1000
\* DEFAULT_CASHU_STAKE_CONFIG.amount
StakeAmount == 1000

\* CashuStakeTransaction.status
StakeStatuses == {"staked", "refunded", "forfeited"}

\* the clock of the escrow is the clock of the events, in seconds
RefundDelay == refundDelayMs \div 1000

StakeIds == DOMAIN stakes

\* the campaign ids a stake may be placed for
StakedCampaignIds == {Slug(data.title) : data \in Forms}

\* the state of the record in the state machine
StakeState(id) ==
    IF stakes[id].status = "staked" /\ id \in refundable THEN "Refundable"
    ELSE IF stakes[id].status = "staked" THEN "Staked"
    ELSE IF stakes[id].status = "refunded" THEN "Refunded"
    ELSE "Forfeited"

\* a record counted as due only once its refundable-at time has passed
DueStrictlyAfter(id) ==
    /\ stakes[id].status = "staked"
    /\ now > stakes[id].refundableAt
    /\ stakes[id].campaignId \notin signals

\* the record is staked, its refundable-at time has come and no forfeiture signal is
\* recorded for its campaign
Due(id) ==
    /\ stakes[id].status = "staked"
    /\ now >= stakes[id].refundableAt
    /\ stakes[id].campaignId \notin signals

\* a creation that adds the configured milliseconds to a clock in seconds
CreateStakeMs(user, campaignId) ==
    /\ stakes' = Append(stakes,
          [id |-> Len(stakes) + 1,
           campaignId |-> campaignId,
           userPubkey |-> user,
           amount |-> StakeAmount,
           stakedAt |-> now,
           refundableAt |-> now + refundDelayMs,
           status |-> "staked"])
    /\ UNCHANGED <<now, published, inflight, arrivals, raced, harness, refundable, signals, pages, gateway>>

\* The deposit for a campaign is confirmed: the record is created Staked.
CreateStake(user, campaignId) ==
    /\ stakes' = Append(stakes,
          [id |-> Len(stakes) + 1,
           campaignId |-> campaignId,
           userPubkey |-> user,
           amount |-> StakeAmount,
           stakedAt |-> now,
           refundableAt |-> now + RefundDelay,
           status |-> "staked"])
    /\ UNCHANGED <<now, published, inflight, arrivals, raced, harness, refundable, signals, pages, gateway>>

\* The timer of one record fires; the state is checked again before anything is done.
TimerFire(id) ==
    /\ id \in StakeIds
    /\ refundable' = IF Due(id) THEN refundable \cup {id} ELSE refundable
    /\ UNCHANGED <<now, published, inflight, arrivals, raced, harness, stakes, signals, pages, gateway>>

\* a sweep that evaluates the oldest record only
SweepFirstOnly ==
    /\ refundable' = refundable \cup {id \in StakeIds : id = 1 /\ Due(id)}
    /\ UNCHANGED <<now, published, inflight, arrivals, raced, harness, stakes, signals, pages, gateway>>

\* The reconciliation sweep: every staked record is evaluated against the clock.
Sweep ==
    /\ refundable' = refundable \cup {id \in StakeIds : Due(id)}
    /\ UNCHANGED <<now, published, inflight, arrivals, raced, harness, stakes, signals, pages, gateway>>

\* a refund that is executed again on a record that is already Refunded
RefundAgain(id) ==
    /\ id \in StakeIds
    /\ IF stakes[id].status = "refunded" \/ StakeState(id) = "Refundable"
       THEN /\ stakes' = [stakes EXCEPT ![id] =
                              [f \in DOMAIN @ \cup {"refundedAt"} |->
                                  IF f = "refundedAt" THEN now
                                  ELSE IF f = "status" THEN "refunded" ELSE @[f]]]
            /\ refundable' = refundable \ {id}
       ELSE UNCHANGED <<stakes, refundable>>
    /\ UNCHANGED <<now, published, inflight, arrivals, raced, harness, signals, pages, gateway>>

\* A refund is attempted: it is executed for a Refundable record whose campaign has no
\* forfeiture signal; on a Refunded record it is a no-op, on any other it is not executed.
Refund(id) ==
    /\ id \in StakeIds
    /\ IF StakeState(id) = "Refundable" /\ stakes[id].campaignId \notin signals
       THEN /\ stakes' = [stakes EXCEPT ![id] =
                              [f \in DOMAIN @ \cup {"refundedAt"} |->
                                  IF f = "refundedAt" THEN now
                                  ELSE IF f = "status" THEN "refunded" ELSE @[f]]]
            /\ refundable' = refundable \ {id}
       ELSE UNCHANGED <<stakes, refundable>>
    /\ UNCHANGED <<now, published, inflight, arrivals, raced, harness, signals, pages, gateway>>

\* a forfeiture that leaves alone the records a sweep has already found due
ForfeitSignalStakedOnly(campaignId) ==
    /\ signals' = signals \cup {campaignId}
    /\ stakes' = [id \in StakeIds |->
                    IF /\ stakes[id].campaignId = campaignId
                       /\ stakes[id].status = "staked"
                       /\ id \notin refundable
                    THEN [f \in DOMAIN stakes[id] \cup {"forfeitureReason"} |->
                             IF f = "forfeitureReason" THEN "abuse"
                             ELSE IF f = "status" THEN "forfeited" ELSE stakes[id][f]]
                    ELSE stakes[id]]
    /\ UNCHANGED <<now, published, inflight, arrivals, raced, harness, refundable, pages, gateway>>

\* An abuse determination for a campaign is received: the signal is recorded and every
\* record of the campaign that is not Refunded is Forfeited.
ForfeitSignal(campaignId) ==
    /\ signals' = signals \cup {campaignId}
    /\ stakes' = [id \in StakeIds |->
                    IF stakes[id].campaignId = campaignId /\ stakes[id].status = "staked"
                    THEN [f \in DOMAIN stakes[id] \cup {"forfeitureReason"} |->
                             IF f = "forfeitureReason" THEN "abuse"
                             ELSE IF f = "status" THEN "forfeited" ELSE stakes[id][f]]
                    ELSE stakes[id]]
    /\ refundable' = {id \in refundable : stakes[id].campaignId # campaignId}
    /\ UNCHANGED <<now, published, inflight, arrivals, raced, harness, pages, gateway>>

\* the times of the escrow: a deposit at 0 or at 1, and the sweeps around the
\* refundable-at times that follow
StakeClock == {0, 1, 86399, 86400, 86401}

\* the clock of the escrow advances
TickEscrow ==
    /\ \E t \in StakeClock : t > now /\ now' = t
    /\ UNCHANGED <<published, inflight, arrivals, raced, harness, escrow, pages, gateway>>

InitEscrow ==
    /\ now = 0
    /\ published = {}
    /\ inflight = {}
    /\ arrivals = <<>>
    /\ raced = {}
    /\ input = <<>>
    /\ output = <<>>
    /\ stakes = <<>>
    /\ refundable = {}
    /\ signals = {}
    /\ wizard = WizardStart
    /\ card = CardStart
    /\ gateway = GatewayStart

NextEscrow ==
    \/ TickEscrow
    \/ \E user \in Pubkeys, c \in StakedCampaignIds :
            Len(stakes) < MaxStakes /\ CreateStake(user, c)
    \/ \E id \in StakeIds : TimerFire(id)
    \/ Sweep
    \/ \E id \in StakeIds : Refund(id)
    \/ \E c \in StakedCampaignIds : ForfeitSignal(c)

SpecEscrow == InitEscrow /\ [][NextEscrow]_vars

\* the periodic sweep is scheduled again and again
SpecEscrowFair == SpecEscrow /\ WF_vars(Sweep)

----------------------------------------------------------------------------
(* The take-action card of the campaign page in Index.tsx *)

\* the attestation handleSendMessage of Index.tsx hands to createEvent
ContactAttestationOf(user, campaign, t, nonce, representatives) ==
    SignEvent(user, t, ACTION_ATTESTATION_KIND,
        <<"I contacted my representatives about ", TagValue(campaign, "title")>>,
        <<(<<"e", EventId(campaign)>>),
          (<<"d", TagValue(campaign, "d")>>),
          (<<"timestamp", JsNumber(t)>>),
          (<<"nonce", nonce>>),
          (<<"rep_count", JsNumber(Len(representatives))>>),
          (<<"alt", <<"Action Attestation: ", user, " took action on ",
                      TagValue(campaign, "title")>>>>)>>)

\* the controls the card renders in state c: the success card while actionCompleted,
\* else the branch of actionStep; the 'send' branch is a spinner and any other step
\* renders null
CardControls(c) ==
    IF c.actionCompleted THEN {"Share Your Action", "Take Another Action"}
    ELSE IF c.actionStep = "null" THEN {"Start Taking Action"}
    ELSE IF c.actionStep = "identify" THEN {"ZIP Code", "Find Reps", "Cancel"}
    ELSE IF c.actionStep = "representatives" THEN {"Next: Draft Message", "Back"}
    ELSE IF c.actionStep = "message" THEN {"Send Message", "Back"}
    ELSE {}

\* the buttons whose onClick is setActionStep alone: control, step it shows on, step it
\* sets
StepButtons ==
    {<<"Start Taking Action", "null", "identify">>,
     <<"Cancel", "identify", "null">>,
     <<"Next: Draft Message", "representatives", "message">>,
     <<"Back", "representatives", "identify">>,
     <<"Back", "message", "representatives">>}

\* a click on one of the step buttons
SetActionStep(button) ==
    /\ button[1] \in CardControls(card)
    /\ card.actionStep = button[2]
    /\ card' = [card EXCEPT !.actionStep = button[3]]
    /\ UNCHANGED <<now, published, inflight, arrivals, raced, harness, escrow, wizard, gateway>>

\* the user types into the ZIP field
SetZipCode(value) ==
    /\ "ZIP Code" \in CardControls(card)
    /\ card.zipCode # value
    /\ card' = [card EXCEPT !.zipCode = value]
    /\ UNCHANGED <<now, published, inflight, arrivals, raced, harness, escrow, wizard, gateway>>

\* handleIdentifyUser: a ZIP shorter than five characters is refused with a toast; else
\* the representatives are looked up, the draft is made and the step is 'representatives'
handleIdentifyUser ==
    /\ "Find Reps" \in CardControls(card)
    /\ IF card.zipCode = "" \/ Len(card.zipCode) < 5
       THEN card' = card
       ELSE card' = [card EXCEPT !.representatives = lookupRepresentatives(card.zipCode),
                                 !.messageDraft = TRUE,
                                 !.actionStep = "representatives"]
    /\ UNCHANGED <<now, published, inflight, arrivals, raced, harness, escrow, wizard, gateway>>

\* handleSendMessage up to its await: with a draft and the campaign loaded, the card
\* shows the 'send' step and the stubbed delivery starts
handleSendMessage ==
    /\ "Send Message" \in CardControls(card)
    /\ card.messageDraft
    /\ QueryByD(arrivals, CAMPAIGN_KIND, TagValue(SavePark, "d"), 1) # <<>>
    /\ Cardinality(Attestations(published)) + card.sending < MaxAttestations
    /\ card' = [card EXCEPT !.isTakingAction = TRUE,
                            !.actionStep = "send",
                            !.sending = @ + 1]
    /\ UNCHANGED <<now, published, inflight, arrivals, raced, harness, escrow, wizard, gateway>>

\* handleSendMessage after its await: the attestation is handed to createEvent, the step
\* is 'success', the action is completed and the finally block clears isTakingAction
handleSendMessageResume ==
    LET loaded == QueryByD(arrivals, CAMPAIGN_KIND, TagValue(SavePark, "d"), 1)
    IN  /\ card.sending > 0
        /\ Nonces \ UsedNonces # {}
        /\ published' = published \cup
              {ContactAttestationOf("K1", loaded[1], now, generateNonce,
                                    card.representatives)}
        /\ card' = [card EXCEPT !.actionStep = "success",
                                !.actionCompleted = TRUE,
                                !.isTakingAction = FALSE,
                                !.sending = @ - 1]
        /\ UNCHANGED <<now, inflight, arrivals, raced, harness, escrow, wizard, gateway>>

\* Take Another Action: setActionCompleted(false)
TakeAnotherAction ==
    /\ "Take Another Action" \in CardControls(card)
    /\ card' = [card EXCEPT !.actionCompleted = FALSE]
    /\ UNCHANGED <<now, published, inflight, arrivals, raced, harness, escrow, wizard, gateway>>

NextCard ==
    \/ Tick
    \/ \E button \in StepButtons : SetActionStep(button)
    \/ \E value \in ZipCodes \cup {"", "941"} : SetZipCode(value)
    \/ handleIdentifyUser
    \/ handleSendMessage
    \/ handleSendMessageResume
    \/ TakeAnotherAction

SpecCard == Init /\ [][NextCard]_vars

----------------------------------------------------------------------------
(* Claims about attestation ingestion *)

\* the timestamp tag of a well-formed attestation, as an integer
TimestampOf(a) == ParseInt(JsToString(TagValue(a, "timestamp")))[1]

\* What the Replay Guard of the specification accepts for a campaign: of the valid
\* attestations received, the first arrival of each (actor, campaign, nonce).
AcceptedKeys(campaignId) ==
    LET acc == Counted(arrivals, campaignId)
    IN  {DedupKey(acc[i]) : i \in {j \in 1..Len(acc) : validateActionAttestationEvent(acc[j])}}

\* C1: in every reachable state no two accepted (counted) action attestations share the
\* same (actor key, campaign id, nonce).
C1_NoSharedDedupKey ==
    \A c \in CampaignIds :
        LET acc == Counted(arrivals, c)
        IN  \A i, j \in 1..Len(acc) : i # j => DedupKey(acc[i]) # DedupKey(acc[j])

\* C2: the delivery of an attestation whose (actor, campaign, nonce) has already been
\* accepted is absorbed: the campaign's total action count is the same after it as before.
C2_RedeliveryKeepsTotal ==
    [][\A m \in inflight : \A c \in CampaignIds :
          (/\ ClientReceive(m)
           /\ isActionAttestationEvent(m.ev)
           /\ TagValue(m.ev, "d") = c
           /\ DedupKey(m.ev) \in AcceptedKeys(c))
          => useCampaignMetrics(arrivals', c, now').totalActions
               = useCampaignMetrics(arrivals, c, now).totalActions]_vars

\* C3: when two sources had deliveries of the same (actor, campaign, nonce) in flight at
\* the same time, at most one of them is admitted, whatever the interleaving.
C3_RaceAdmitsAtMostOne ==
    \A k \in raced :
        Cardinality({i \in 1..Len(arrivals) :
                        isActionAttestationEvent(arrivals[i]) /\ DedupKey(arrivals[i]) = k}) <= 1

\* C4: for every campaign id, totalActions equals the number of accepted action
\* attestations (one per accepted (actor, campaign, nonce)) carrying that campaign id.
C4_TotalEqualsAccepted ==
    \A c \in CampaignIds :
        useCampaignMetrics(arrivals, c, now).totalActions = Cardinality(AcceptedKeys(c))

\* C5: at every query time now, hotActions equals the number of counted attestations whose
\* timestamp tag lies in [now - 86400, now]; a timestamp later than now is not counted.
C5_HotIsTrailingWindow ==
    \A c \in CampaignIds :
        LET acc == Counted(arrivals, c)
        IN  useCampaignMetrics(arrivals, c, now).hotActions
              = Cardinality({i \in 1..Len(acc) :
                                /\ now - DAY <= TimestampOf(acc[i])
                                /\ TimestampOf(acc[i]) <= now})

\* every order in which the events of s can arrive
ArrivalOrders(s) ==
    {[i \in 1..Len(s) |-> s[f[i]]] : f \in Permutations(1..Len(s))}

\* C6: the same set of events fed in any permutation of its arrival order yields the same
\* metrics for every campaign and the same New, Hot and Trending rankings.
C6_ArrivalOrderInvariant ==
    \A p \in ArrivalOrders(arrivals) :
        /\ \A c \in CampaignIds :
               useCampaignMetrics(p, c, now) = useCampaignMetrics(arrivals, c, now)
        /\ \A tab \in FeedTabs : CampaignFeed(p, tab) = CampaignFeed(arrivals, tab)

\* C7: an attestation whose nonce was already used by an accepted attestation of the same
\* actor on the same campaign is rejected even when its timestamp tag differs: no two
\* counted attestations with one (actor, campaign, nonce) differ in their timestamp.
C7_ReusedNonceRejected ==
    \A c \in CampaignIds :
        LET acc == Counted(arrivals, c)
        IN  \A i, j \in 1..Len(acc) :
                (DedupKey(acc[i]) = DedupKey(acc[j])
                 /\ TimestampOf(acc[i]) # TimestampOf(acc[j])) => FALSE

\* the actor has an accepted attestation on the campaign inside the rolling 24-hour window
RecentlyActed(user, c) ==
    LET acc == Counted(arrivals, c)
    IN  \E i \in 1..Len(acc) :
            /\ acc[i].pubkey = user
            /\ TimestampOf(acc[i]) <= now
            /\ now - TimestampOf(acc[i]) < DAY * actionsPerCampaignPerDay

\* C8: an actor with an accepted attestation on campaign C at time T is denied a second
\* action on C before T + 24h: no further attestation of that actor on C is published.
C8_SecondActionDenied ==
    [][\A user \in Pubkeys : \A c \in CampaignIds :
          RecentlyActed(user, c)
          => {a \in Attestations(published') : a.pubkey = user /\ TagValue(a, "d") = c}
               = {a \in Attestations(published) : a.pubkey = user /\ TagValue(a, "d") = c}]_vars

\* the campaigns the key created inside the rolling 24-hour window that ends now
CreatedInWindow(user) ==
    {c \in Campaigns(published) :
        c.pubkey = user /\ c.created_at <= now /\ now - c.created_at < DAY}

\* C9: a key creates at most 5 campaigns in any rolling 24-hour window; the sixth
\* creation inside the window is denied.
C9_AtMostFiveCampaignsPerDay ==
    \A user \in Pubkeys : Cardinality(CreatedInWindow(user)) <= campaignsCreatedPerDay

\* the time of an update: its updated_at tag when it has one, else the event's created_at
UpdateTime(u) ==
    IF HasTag(u.tags, "updated_at") THEN ParseInt(TagValue(u, "updated_at"))[1]
    ELSE u.created_at

\* the valid updates received for a campaign: well-formed kind-31101 events of the
\* campaign's creator that carry a status
ValidUpdates(campaign) ==
    {u \in Updates(SeqToSet(arrivals)) :
        /\ HasTag(u.tags, "d") /\ HasTag(u.tags, "alt") /\ HasTag(u.tags, "status")
        /\ TagValue(u, "d") = TagValue(campaign, "d")
        /\ u.pubkey = campaign.pubkey
        /\ TagValue(u, "status") \in Statuses}

\* C10: the status of a campaign is the status of the most recently timestamped valid
\* update received for it, and active when there is none.
C10_StatusOfLatestUpdate ==
    \A campaign \in Campaigns(SeqToSet(arrivals)) :
        LET shown == CampaignShown(arrivals, TagValue(campaign, "d"))
            valid == ValidUpdates(campaign)
        IN  IF valid = {} THEN shown.status = "active"
            ELSE \E u \in valid :
                    /\ \A v \in valid : UpdateTime(v) <= UpdateTime(u)
                    /\ shown.status = parseCampaignUpdate(u).status

\* the update is signed by a key other than the creator of a received campaign it names
IsUnauthorizedUpdate(ev) ==
    /\ isCampaignUpdateEvent(ev)
    /\ \E c \in Campaigns(SeqToSet(arrivals)) :
          TagValue(c, "d") = TagValue(ev, "d") /\ c.pubkey # ev.pubkey

\* the events received, the unauthorized updates left out
WithoutUnauthorized(evs) ==
    LET Keep(ev) == ~IsUnauthorizedUpdate(ev)
    IN  SelectSeq(evs, Keep)

\* C11: a campaign update signed by a key other than the campaign's creator is discarded
\* without an error: every campaign record is what it would be had the update never
\* been received.
C11_UnauthorizedUpdateDiscarded ==
    \A c \in CampaignIds :
        /\ CampaignShown(arrivals, c) = CampaignShown(WithoutUnauthorized(arrivals), c)
        /\ CampaignShown(arrivals, c) # ParseError("Invalid campaign event: missing required tags")

\* an update of K2 that sets Scenario A's campaign (created by K1) to completed has arrived
C11_Witness ==
    \E i \in 1..Len(arrivals) :
        /\ IsUnauthorizedUpdate(arrivals[i])
        /\ HasTag(arrivals[i].tags, "status")
        /\ TagValue(arrivals[i], "status") = "completed"
        /\ CampaignShown(arrivals, TagValue(arrivals[i], "d")).status = "active"

\* a campaign as the specification accepts it: d, title, a category of the supported
\* list, a target level of {federal, state, local}, alt
WellFormedCampaign(ev) ==
    /\ ev.kind = CAMPAIGN_KIND
    /\ HasTag(ev.tags, "d")
    /\ HasTag(ev.tags, "title")
    /\ \E i \in 1..Len(ev.tags) :
          ev.tags[i][1] = "category" /\ ev.tags[i][2] \in CampaignCategories
    /\ \E i \in 1..Len(ev.tags) :
          ev.tags[i][1] = "target_level" /\ ev.tags[i][2] \in TargetLevels
    /\ HasTag(ev.tags, "alt")

\* C12: a kind-31100 event is accepted as a campaign if and only if it has a d tag, a
\* title tag, a category tag with a supported value, a target_level tag with a value in
\* {federal, state, local} and an alt tag.
C12_CampaignAcceptedIffWellFormed ==
    output # <<>> => (output[1] <=> WellFormedCampaign(input))

\* the string holds an integer: an optional sign and digits, nothing else
IsIntegerString(str) ==
    LET digits == IF str # <<>> /\ Head(str) = "-" THEN Tail(str) ELSE str
    IN  digits # <<>> /\ \A i \in 1..Len(digits) : IsDigit(digits[i])

\* the tag value is an integer, written as a number or as a string
IsIntegerValue(v) == v[1] = "number" \/ IsIntegerString(v[2])

\* an attestation as the specification accepts it: e, d, an integer timestamp, a nonce
\* string of at least 16 characters and, when rep_count is there, a non-negative integer
WellFormedAttestation(ev) ==
    /\ ev.kind = ACTION_ATTESTATION_KIND
    /\ HasTag(ev.tags, "e")
    /\ HasTag(ev.tags, "d")
    /\ HasTag(ev.tags, "timestamp") /\ IsIntegerValue(TagValue(ev, "timestamp"))
    /\ HasTag(ev.tags, "nonce")
    /\ TagValue(ev, "nonce")[1] = "string" /\ Len(TagValue(ev, "nonce")[2]) >= 16
    /\ HasTag(ev.tags, "rep_count") =>
          /\ IsIntegerValue(TagValue(ev, "rep_count"))
          /\ NumGE(ParseInt(JsToString(TagValue(ev, "rep_count"))), 0)

\* C13: a kind-31102 event is accepted as an action attestation only if it has an e tag,
\* a d tag, an integer timestamp and a nonce string of the minimum length, and its
\* rep_count, when present, is a non-negative integer.
C13_AttestationAcceptedOnlyIfWellFormed ==
    (output # <<>> /\ output[1]) => WellFormedAttestation(input)

\* C14: a malformed event among the events received does not abort ingestion: every
\* well-formed campaign received with it, before or after, is parsed and is in the
\* campaign list.
C14_MalformedEventIsolated ==
    \A i \in 1..Len(arrivals) :
        validateCampaignEvent(arrivals[i]) =>
            LET list == useCampaigns(arrivals, "", FEED_QUERY_LIMIT)
            IN  /\ list.error = "null"
                /\ \E j \in 1..Len(list.data) : list.data[j] = parseCampaign(arrivals[i])

----------------------------------------------------------------------------
(* Claims about the stake escrow *)

\* C15: when a forfeiture signal for the campaign of a record is received before the
\* record is Refunded, the record becomes Forfeited in that step whether or not a timer
\* or a sweep has already found it due, and no later step refunds a record whose
\* campaign has a recorded signal.
C15_ForfeitureWins ==
    [][\A id \in StakeIds :
          /\ (stakes[id].status = "staked" /\ stakes[id].campaignId \in signals' \ signals)
                => stakes'[id].status = "forfeited"
          /\ (stakes[id].status # "refunded" /\ stakes[id].campaignId \in signals)
                => stakes'[id].status # "refunded"]_vars

\* a record whose refundable-at time had come is Forfeited
C15_Witness ==
    \E id \in StakeIds :
        /\ stakes[id].status = "forfeited"
        /\ now >= stakes[id].refundableAt

\* C16: a sweep leaves a Staked record without a forfeiture signal Staked while the clock
\* is before its refundable-at time and makes it Refundable at or after that time; a
\* refund of a Refundable record makes it Refunded.
C16_SweepAtRefundableAt ==
    [][/\ Sweep =>
            \A id \in StakeIds :
                (StakeState(id) = "Staked" /\ stakes[id].campaignId \notin signals) =>
                    IF now < stakes[id].refundableAt
                    THEN StakeState(id)' = "Staked"
                    ELSE StakeState(id)' = "Refundable"
       /\ \A id \in StakeIds :
            (Refund(id) /\ StakeState(id) = "Refundable"
                        /\ stakes[id].campaignId \notin signals)
                => StakeState(id)' = "Refunded"]_vars

\* a record is Refundable at exactly its refundable-at time
C16_Witness ==
    \E id \in StakeIds :
        /\ StakeState(id) = "Refundable"
        /\ now = stakes[id].refundableAt

\* C17: no step changes a record that is Refunded or Forfeited, and a refund attempted
\* on a Refunded record changes nothing.
C17_TerminalStates ==
    [][\A id \in StakeIds :
          /\ stakes[id].status \in {"refunded", "forfeited"} =>
                /\ stakes'[id] = stakes[id]
                /\ id \notin refundable'
          /\ (Refund(id) /\ stakes[id].status = "refunded") => UNCHANGED vars]_vars

\* a record is Refunded, the clock has moved on since the refund and a forfeiture signal
\* for its campaign has been received
C17_Witness ==
    \E id \in StakeIds :
        /\ stakes[id].status = "refunded"
        /\ now > stakes[id].refundedAt
        /\ stakes[id].campaignId \in signals

\* C18: with the sweep scheduled again and again, a Staked record whose refundable-at
\* time has come and whose campaign has no forfeiture signal eventually is Refundable,
\* unless a forfeiture signal for its campaign is received first.
C18_DueBecomesRefundable ==
    \A id \in 1..MaxStakes :
        (id \in StakeIds /\ Due(id)) ~>
            (id \in StakeIds /\ (\/ StakeState(id) = "Refundable"
                                 \/ stakes[id].campaignId \in signals))

\* the second record is Refundable after its refundable-at time
C18_Witness ==
    /\ 2 \in StakeIds
    /\ StakeState(2) = "Refundable"
    /\ now > stakes[2].refundableAt

\* C19: the status of a record is staked, refunded or forfeited, and its refundable-at
\* time is its staked-at time plus the configured delay and never changes.
C19_StatusAndRefundableAt ==
    /\ [](\A id \in StakeIds :
             /\ stakes[id].status \in StakeStatuses
             /\ stakes[id].refundableAt = stakes[id].stakedAt + RefundDelay)
    /\ [][\A id \in StakeIds :
             /\ stakes'[id].refundableAt = stakes[id].refundableAt
             /\ stakes'[id].stakedAt = stakes[id].stakedAt]_vars

\* one record is Refunded and another is Forfeited
C19_Witness ==
    \E a, b \in StakeIds :
        /\ stakes[a].status = "refunded"
        /\ stakes[b].status = "forfeited"

----------------------------------------------------------------------------
(* Claims about the order of the feed *)

\* the place of a slug in the lexical order of the slugs of the model
SlugRank(slug) ==
    CASE slug = "clean-air" -> 1
      [] slug = "clean-water" -> 2
      [] slug = "save-local-park" -> 3
      [] slug = "save-park" -> 4

\* lexical order of two campaign identifiers: by slug, then by the digits that follow
\* (the same number of digits whenever the slugs are equal)
IdLexLE(a, b) ==
    \/ SlugRank(a[1]) < SlugRank(b[1])
    \/ a[1] = b[1] /\ a[2] <= b[2]

\* C20: the New feed lists the campaigns in descending order of creation timestamp, and
\* campaigns with the same creation timestamp in lexical order of their identifiers,
\* whatever the order the relays returned them in.
C20_NewFeedOrder ==
    LET feed == CampaignFeed(arrivals, "new")
    IN  \A i, j \in 1..Len(feed) :
            i < j =>
                \/ feed[i].created_at > feed[j].created_at
                \/ /\ feed[i].created_at = feed[j].created_at
                   /\ IdLexLE(TagValue(feed[i], "d"), TagValue(feed[j], "d"))

\* the number of counted attestations of the campaign whose timestamp lies in the
\* trailing 24 hours at query time
HotCount(campaignId) ==
    LET acc == Counted(arrivals, campaignId)
    IN  Cardinality({i \in 1..Len(acc) : /\ now - DAY <= TimestampOf(acc[i])
                                          /\ TimestampOf(acc[i]) <= now})

\* the most recent attestation timestamp of the campaign, -1 when it has none
LatestAttestation(campaignId) ==
    LET acc == Counted(arrivals, campaignId)
        stamps == {TimestampOf(acc[i]) : i \in 1..Len(acc)}
    IN  IF stamps = {} THEN -1 ELSE CHOOSE t \in stamps : \A u \in stamps : u <= t

\* C21: the Hot feed lists the campaigns in descending order of their number of
\* attestations in the trailing 24 hours at query time; ties are broken by the most recent
\* attestation timestamp (later first) and then by identifier.
C21_HotFeedOrder ==
    LET feed == CampaignFeed(arrivals, "hot")
        Id(k) == TagValue(feed[k], "d")
    IN  \A i, j \in 1..Len(feed) :
            i < j =>
                \/ HotCount(Id(i)) > HotCount(Id(j))
                \/ /\ HotCount(Id(i)) = HotCount(Id(j))
                   /\ \/ LatestAttestation(Id(i)) > LatestAttestation(Id(j))
                      \/ /\ LatestAttestation(Id(i)) = LatestAttestation(Id(j))
                         /\ IdLexLE(Id(i), Id(j))

----------------------------------------------------------------------------
(* Claims about what an attestation discloses *)

\* the content and the tags of an event with the values of nonce and timestamp left out
Masked(ev) ==
    [content |-> ev.content,
     tags |-> [i \in DOMAIN ev.tags |->
                  IF ev.tags[i][1] \in {"nonce", "timestamp"}
                  THEN <<ev.tags[i][1]>>
                  ELSE ev.tags[i]]]

\* C22: two runs of the take-action flow that differ only in the ZIP code entered and in
\* the identities of the representatives found publish attestations whose tags and
\* content are the same apart from nonce and timestamp: no ZIP code and no name, id,
\* email or form URL of a representative is in the event.
C22_AttestationHidesZipAndReps ==
    output # <<>> => Masked(output[1]) = Masked(output[2])

\* two runs with different ZIP codes and different representatives have published
C22_Witness ==
    /\ output # <<>>
    /\ input[1].zipCode # input[2].zipCode
    /\ \A i \in DOMAIN input[1].representatives :
           input[1].representatives[i] # input[2].representatives[i]

----------------------------------------------------------------------------
(* Claims about the pages *)

\* C23: with a form that passes every validation and the user pressing Next again and
\* again, the wizard does not stay on the stake step: Next pressed there advances to
\* review (the other way off the step is Back, or an edit that makes the form invalid).
C23_NextLeavesStake ==
    (wizard.currentStep = "stake" /\ isValid(wizard.formData))
        ~> (wizard.currentStep # "stake" \/ ~isValid(wizard.formData))

----------------------------------------------------------------------------
(* Claims about what the metrics count *)

\* the events received, without the kind-31102 events that fail
\* validateActionAttestationEvent
WithoutInvalidAttestations(evs) ==
    LET Kept(ev) == isActionAttestationEvent(ev) => validateActionAttestationEvent(ev)
    IN  SelectSeq(evs, Kept)

\* C24: a kind-31102 event that fails validateActionAttestationEvent adds nothing to
\* totalActions or hotActions of a campaign: the metrics are those of the validated
\* attestations alone.
C24_OnlyValidatedCounted ==
    \A c \in CampaignIds :
        LET all == useCampaignMetrics(arrivals, c, now)
            valid == useCampaignMetrics(WithoutInvalidAttestations(arrivals), c, now)
        IN  /\ all.totalActions = valid.totalActions
            /\ all.hotActions = valid.hotActions

----------------------------------------------------------------------------
(* Claims about the civic gateway *)

\* the last request was a GET for a ZIP code and was answered 200
AnsweredOk ==
    /\ gateway.response # <<>>
    /\ gateway.request[1].method = "GET"
    /\ ZipRegexTest(gateway.request[1].zip)
    /\ gateway.response[1].status = 200

\* C25: every 200 response of GET /api/reps for a valid ZIP code has success = true, a
\* representatives list, the cached flag and zipCode, and the representatives list of a
\* cache hit is the list the cache miss that stored the entry returned.
C25_ResponseShape ==
    AnsweredOk =>
        LET body == gateway.response[1].body
            entry == gateway.cache[gateway.request[1].zip][1]
        IN  /\ {"success", "representatives", "cached", "zipCode"} \subseteq DOMAIN body
            /\ body.success
            /\ body.cached =>
                  body.representatives = MapRepresentatives(entry.data, entry.lowAccuracy)

\* C26: an OPTIONS request is answered 200 with the Access-Control-Allow-* headers, and
\* 405 is the answer to no request whose method is GET or OPTIONS.
C26_PreflightAnswered ==
    gateway.response # <<>> =>
        /\ gateway.request[1].method = "OPTIONS" =>
              /\ gateway.response[1].status = 200
              /\ CorsHeaders \subseteq gateway.response[1].headers
        /\ gateway.response[1].status = 405 =>
              gateway.request[1].method \notin {"GET", "OPTIONS"}

\* the KV store holds an entry for the ZIP code that is younger than CACHE_TTL
Fresh(zipCode) ==
    /\ ZipRegexTest(zipCode)
    /\ gateway.cache[zipCode] # <<>>
    /\ DateNow - gateway.cache[zipCode][1].timestamp < CACHE_TTL

\* the response of the step comes from the cache
FromCache ==
    /\ gateway'.response[1].status = 200
    /\ "cached" \in DOMAIN gateway'.response[1].body
    /\ gateway'.response[1].body.cached

\* an invalid or missing ZIP code is answered 400 and nothing else is done
Rejected(zipCode) ==
    ~ZipRegexTest(zipCode) =>
        /\ gateway'.response[1].status = 400
        /\ gateway'.effects = {}
        /\ gateway'.cache = gateway.cache

\* C27 as stated: a GET is answered from the cache only when a fresh entry exists; with
\* no entry or an older one the upstream API is queried and a new entry stamped with the
\* current time is stored; an invalid or missing ZIP code is answered 400 with no cache
\* read, upstream call or cache write.
C27_CacheOrUpstreamAlwaysStored ==
    [][\A kvUp \in BOOLEAN, upstream \in UpstreamAnswers :
          LET zipCode == gateway'.request[1].zip
          IN  (gateway'.request # <<>> /\ repsHandler("GET", zipCode, kvUp, upstream)) =>
              /\ FromCache => Fresh(zipCode)
              /\ (ZipRegexTest(zipCode) /\ ~Fresh(zipCode)) =>
                    /\ "upstream" \in gateway'.effects
                    /\ gateway'.cache[zipCode] # <<>>
                    /\ gateway'.cache[zipCode][1].timestamp = DateNow
              /\ Rejected(zipCode)]_vars

\* C27: a GET is answered from the cache only when a fresh entry exists; with no entry or
\* an older one the upstream API is queried and, when it answers OK and the KV store
\* takes the write, a new entry stamped with the current time is stored, otherwise the
\* cache is left as it was; an invalid or missing ZIP code is answered 400 with no cache
\* read, upstream call or cache write.
C27_CacheOrUpstream ==
    [][\A kvUp \in BOOLEAN, upstream \in UpstreamAnswers :
          LET zipCode == gateway'.request[1].zip
          IN  (gateway'.request # <<>> /\ repsHandler("GET", zipCode, kvUp, upstream)) =>
              /\ FromCache => Fresh(zipCode)
              /\ (ZipRegexTest(zipCode) /\ ~Fresh(zipCode)) =>
                    /\ "upstream" \in gateway'.effects
                    /\ IF upstream.ok /\ kvUp
                       THEN /\ gateway'.cache[zipCode] # <<>>
                            /\ gateway'.cache[zipCode][1].timestamp = DateNow
                       ELSE gateway'.cache = gateway.cache
              /\ Rejected(zipCode)]_vars

\* a request is answered from an entry stored at an earlier time, and a request finds an
\* older entry replaced
C27_Witness ==
    /\ AnsweredOk
    /\ \/ /\ gateway.response[1].body.cached
          /\ gateway.response[1].body.timestamp < DateNow
       \/ /\ ~gateway.response[1].body.cached
          /\ now > 87000
          /\ gateway.cache[gateway.request[1].zip] # <<>>
          /\ gateway.cache[gateway.request[1].zip][1].timestamp = DateNow

----------------------------------------------------------------------------
(* Claims about validation and parsing together *)

\* C28: an event validateCampaignEvent accepts is parsed by parseCampaign without a throw
\* into a record with at least one category and one target level, and an event
\* validateActionAttestationEvent accepts is parsed by parseActionAttestation without a
\* throw.
C28_AcceptedEventsParse ==
    (output # <<>> /\ output[1]) =>
        /\ ~Threw(output[2])
        /\ isCampaignEvent(input) =>
              /\ output[2].categories # <<>>
              /\ output[2].targetLevels # <<>>

\* an accepted campaign with two categories has been parsed
C28_Witness ==
    /\ output # <<>>
    /\ output[1]
    /\ isCampaignEvent(input)
    /\ Len(output[2].categories) = 2

----------------------------------------------------------------------------
(* Claims about the bounds of the metrics *)

\* C29: for the attestation events received for a campaign and every query time, the
\* metrics useCampaignMetrics computes satisfy 0 <= hotActions <= totalActions.
C29_HotWithinTotal ==
    \A c \in CampaignIds :
        LET metrics == useCampaignMetrics(arrivals, c, now)
        IN  /\ 0 <= metrics.hotActions
            /\ metrics.hotActions <= metrics.totalActions

\* a campaign has an attestation inside the trailing day and one outside it
C29_Witness ==
    \E c \in CampaignIds :
        LET metrics == useCampaignMetrics(arrivals, c, now)
        IN  /\ 0 < metrics.hotActions
            /\ metrics.hotActions < metrics.totalActions

----------------------------------------------------------------------------
(* Claims about the take-action card *)

\* C30: the action card never reaches a state with no enabled transition: in every state
\* it renders a control or a send is in flight, so that after 'Take Another Action' a new
\* flow can be started; at most one send is in flight and a card on 'success' has
\* published its attestation.
C30_CardNeverStuck ==
    /\ CardControls(card) # {} \/ card.sending > 0
    /\ card.sending <= 1
    /\ card.actionStep = "success" =>
          \E a \in Attestations(published) :
              a.content[1] = "I contacted my representatives about "

====
